---- MODULE Spec2Model ----
(***************************************************************************)
(* TSLite: a single-file, append-oriented time-series store (src/lib.rs).  *)
(* The file at `path` is a sequence of bytes: a 15-byte header followed by *)
(* 5-byte record slots.  PhysicalDB holds an optional file handle and a    *)
(* cached copy of the header.                                              *)
(***************************************************************************)
EXTENDS Integers, Sequences, FiniteSets, TLC

VARIABLES
    disk,    \* the bytes of the file at `path`
    file,    \* PhysicalDB.file : Option<File>, "None" or "Some"
    header,  \* PhysicalDB.header : the cached DbHeader
    call,    \* the last operation called, with its arguments
    ret,     \* what that operation returned
    exists,  \* whether there is a file at `path`
    arg,     \* the last codec or validity function applied, with its argument
    out      \* what that function gave

vars == <<disk, file, header, call, ret, exists, arg, out>>

(***************************************************************************)
(* Bounds of the model.                                                    *)
(***************************************************************************)
MaxRecords == 3

\* the width of the index arithmetic: u64 scaled down to this number of bits
WordBits == 8

\* time offsets and values offered to append_record, values offered to update_record
Offsets == {1, 300}
Values == {9}
NewValues == {7}

\* origin dates offered to create (real UTC instants)
FirstOrigin == [year |-> 1994, month |-> 7, day |-> 8, hour |-> 6, minute |-> 55, second |-> 34]

Origins ==
    { FirstOrigin,
      [year |-> 2020, month |-> 8, day |-> 31, hour |-> 0, minute |-> 0, second |-> 0] }

(***************************************************************************)
(* Sizes of the format.                                                    *)
(***************************************************************************)
TimestampSize == 7
HeaderSize == 15
RecordSize == 5

Min(a, b) == IF a < b THEN a ELSE b

(***************************************************************************)
(* Little-endian integers (byteorder::LittleEndian).                       *)
(***************************************************************************)
\* the bytes in the other order: high byte first
RECURSIVE ToLE_big_endian(_, _)
ToLE_big_endian(n, k) ==
    IF k = 0 THEN <<>> ELSE ToLE_big_endian(n \div 256, k - 1) \o <<n % 256>>

RECURSIVE ToLE(_, _)
ToLE(n, k) == IF k = 0 THEN <<>> ELSE <<n % 256>> \o ToLE(n \div 256, k - 1)

RECURSIVE FromLE(_)
FromLE(b) == IF b = <<>> THEN 0 ELSE b[1] + 256 * FromLE(Tail(b))

(***************************************************************************)
(* Timestamp                                                               *)
(***************************************************************************)
Timestamp_as_bytes(t) ==
    ToLE(t.year, 2) \o <<t.month, t.day, t.hour, t.minute, t.second>>

Timestamp_from(d) ==
    [year |-> FromLE(SubSeq(d, 1, 2)), month |-> d[3], day |-> d[4],
     hour |-> d[5], minute |-> d[6], second |-> d[7]]

is_valid(t) ==
    LET factor(x) == t.year % x = 0
        leap == factor(4) /\ (~factor(100) \/ factor(400))
    IN  /\ 1 <= t.month /\ t.month <= 12
        /\ 1 <= t.day
        /\ t.hour < 24
        /\ t.minute < 60
        /\ t.second < 60
        /\ IF t.month = 2
           THEN IF leap THEN t.day <= 29 ELSE t.day <= 28
           ELSE \/ (t.month % 2 = 0 /\ t.day <= 30)
                \/ (t.month % 2 = 1 /\ t.day <= 31)

\* the year cast to u8 like the other fields
Timestamp_from_DateTime_year_as_u8(d) ==
    [year |-> d.year % 256, month |-> d.month % 256, day |-> d.day % 256,
     hour |-> d.hour % 256, minute |-> d.minute % 256, second |-> d.second % 256]

\* impl From<DateTime<Utc>> for Timestamp: the fields cast to u16 and u8
Timestamp_from_DateTime(d) ==
    [year |-> d.year % 65536, month |-> d.month % 256, day |-> d.day % 256,
     hour |-> d.hour % 256, minute |-> d.minute % 256, second |-> d.second % 256]

(***************************************************************************)
(* RecordInfo                                                              *)
(***************************************************************************)
RecordInfo(off, v) == [time_offset |-> off, value |-> v]

RecordInfo_as_bytes(r) == ToLE(r.time_offset, 4) \o <<r.value>>

RecordInfo_from(d) == RecordInfo(FromLE(SubSeq(d, 1, 4)), d[5])

(***************************************************************************)
(* DbHeader                                                                *)
(***************************************************************************)
DbHeader(o, n) == [origin_date |-> o, records_number |-> n]

DbHeader_as_bytes(h) == Timestamp_as_bytes(h.origin_date) \o ToLE(h.records_number, 8)

DbHeader_from(d) ==
    DbHeader(Timestamp_from(d), FromLE(SubSeq(d, TimestampSize + 1, HeaderSize)))

(***************************************************************************)
(* File primitives: read(2) at a position returns what is there, possibly  *)
(* fewer bytes than asked; write(2) at a position past the end fills the   *)
(* gap with zero bytes.                                                    *)
(***************************************************************************)
ReadAt(f, pos, n) == SubSeq(f, pos + 1, Min(pos + n, Len(f)))

WriteAt(f, pos, bytes) ==
    LET end == pos + Len(bytes)
        newlen == IF end > Len(f) THEN end ELSE Len(f)
    IN  IF bytes = <<>> THEN f
        ELSE [k \in 1..newlen |->
                IF k > pos /\ k <= end THEN bytes[k - pos]
                ELSE IF k <= Len(f) THEN f[k]
                ELSE 0]

(***************************************************************************)
(* Results.  A call returns Ok, IOError or IndexOutOfBound; the payload    *)
(* fields that a call does not produce keep their default.                 *)
(***************************************************************************)
NoRecord == RecordInfo(0, 0)
NoHeader == DbHeader([year |-> 0, month |-> 0, day |-> 0, hour |-> 0, minute |-> 0, second |-> 0], 0)
NoIssue == [kind |-> "-", index |-> 0]

Result(tag) == [tag |-> tag, rec |-> NoRecord, hdr |-> NoHeader, issue |-> NoIssue]
Ok == Result("Ok")
IOError == Result("IOError")
IndexOutOfBound == Result("IndexOutOfBound")
OkRecord(r) == [Ok EXCEPT !.rec = r]
OkHeader(h) == [Ok EXCEPT !.hdr = h]
OkIssue(kind, i) == [Ok EXCEPT !.issue = [kind |-> kind, index |-> i]]

Call(name, rec_id, rec) == [op |-> name, rec_id |-> rec_id, rec |-> rec]

(***************************************************************************)
(* PhysicalDB: the parts of each operation that read the file.             *)
(***************************************************************************)
\* a read_header that takes a short read as a header, the missing bytes as zeros
header_read_zero_padded(f) ==
    LET buffer == ReadAt(f, 0, HeaderSize)
    IN  OkHeader(DbHeader_from(buffer \o [i \in 1..(HeaderSize - Len(buffer)) |-> 0]))

\* read_header: 15 bytes from position 0, IOError on a short read
header_read(f) ==
    LET buffer == ReadAt(f, 0, HeaderSize)
    IN  IF Len(buffer) = HeaderSize THEN OkHeader(DbHeader_from(buffer)) ELSE IOError

\* u64 arithmetic as a release build does it: modulo 2^width
Word == 2 ^ WordBits
u64(n) == n % Word

\* (7 + 8) + (rec_id * 5) leaves the range of u64: a debug build panics there
overflows(rec_id) == HeaderSize + rec_id * RecordSize >= Word

\* pos(n) = (7 + 8) + (5*n)
pos(rec_id) == u64(HeaderSize + u64(rec_id * RecordSize))

check_record_index(f, rec_id) == Len(f) >= pos(rec_id)

\* read_record: the index check, then 5 bytes from pos, IOError on a short read
record_read(f, rec_id) ==
    IF ~check_record_index(f, rec_id) THEN IndexOutOfBound
    ELSE LET buffer == ReadAt(f, pos(rec_id), RecordSize)
         IN  IF Len(buffer) = RecordSize THEN OkRecord(RecordInfo_from(buffer))
             ELSE IOError

\* a scan that looks for an unreadable declared record before it compares any offsets
RECURSIVE scan_records_corrupted_first(_, _, _, _)
scan_records_corrupted_first(f, i, n, time_offset) ==
    LET bad == {k \in i..(n - 1) : record_read(f, k).tag # "Ok"}
    IN  IF bad # {} THEN OkIssue("RecordCorrupted", CHOOSE k \in bad : \A m \in bad : k <= m)
        ELSE IF i >= n
        THEN IF ~check_record_index(f, n) THEN OkIssue("MismatchRecordAmount", 0)
             ELSE OkIssue("None", 0)
        ELSE IF time_offset > record_read(f, i).rec.time_offset
             THEN OkIssue("UnorderedRecord", 0)
             ELSE scan_records_corrupted_first(f, i + 1, n, record_read(f, i).rec.time_offset)

\* a scan that takes equal consecutive offsets for disorder
RECURSIVE scan_records_strictly_increasing(_, _, _, _)
scan_records_strictly_increasing(f, i, n, time_offset) ==
    IF i >= n
    THEN IF ~check_record_index(f, n) THEN OkIssue("MismatchRecordAmount", 0)
         ELSE OkIssue("None", 0)
    ELSE LET res_record == record_read(f, i)
         IN  IF res_record.tag # "Ok" THEN OkIssue("RecordCorrupted", i)
             ELSE IF i > 0 /\ time_offset >= res_record.rec.time_offset
                  THEN OkIssue("UnorderedRecord", 0)
                  ELSE scan_records_strictly_increasing(f, i + 1, n, res_record.rec.time_offset)

\* the loop of check_db_file over records i..n-1, and the check after it
RECURSIVE scan_records(_, _, _, _)
scan_records(f, i, n, time_offset) ==
    IF i >= n
    THEN IF ~check_record_index(f, n) THEN OkIssue("MismatchRecordAmount", 0)
         ELSE OkIssue("None", 0)
    ELSE LET res_record == record_read(f, i)
         IN  IF res_record.tag # "Ok" THEN OkIssue("RecordCorrupted", i)
             ELSE IF time_offset > res_record.rec.time_offset
                  THEN OkIssue("UnorderedRecord", 0)
                  ELSE scan_records(f, i + 1, n, res_record.rec.time_offset)

db_file_check(f) ==
    LET res_header == header_read(f)
    IN  IF res_header.tag # "Ok" THEN OkIssue("HeaderCorrupted", 0)
        ELSE IF ~is_valid(res_header.hdr.origin_date) THEN OkIssue("OriginDateInvalid", 0)
        ELSE scan_records(f, 0, res_header.hdr.records_number, 0)

\* the first loop of reorder_record: the result of the first read that fails, if any
RECURSIVE records_read(_, _, _)
records_read(f, i, n) ==
    IF i >= n THEN Ok
    ELSE LET r == record_read(f, i)
         IN  IF r.tag # "Ok" THEN r ELSE records_read(f, i + 1, n)

\* the records read by that loop when every read succeeds
records_of(f, n) == [i \in 1..n |-> record_read(f, i - 1).rec]

\* RecordInfo's Ord compares time_offset only
record_le(a, b) == a.time_offset <= b.time_offset

\* a sort by the wrong key: the records ordered by value
sorted_orders_by_value(records) ==
    LET n == Len(records)
        perms == {p \in [1..n -> 1..n] : \A i, j \in 1..n : i # j => p[i] # p[j]}
    IN  {[i \in 1..n |-> records[p[i]]] : p \in
            {q \in perms : \A i \in 1..n - 1 : records[q[i]].value <= records[q[i + 1]].value}}

\* what sort_unstable may leave: any ordering of the same records that is sorted
sorted_orders(records) ==
    LET n == Len(records)
        perms == {p \in [1..n -> 1..n] : \A i, j \in 1..n : i # j => p[i] # p[j]}
    IN  {[i \in 1..n |-> records[p[i]]] : p \in
            {q \in perms : \A i \in 1..n - 1 : record_le(records[q[i]], records[q[i + 1]])}}

RECURSIVE records_bytes(_)
records_bytes(records) ==
    IF records = <<>> THEN <<>>
    ELSE RecordInfo_as_bytes(Head(records)) \o records_bytes(Tail(records))

(***************************************************************************)
(* The store after PhysicalDB::create(path, Some(origin)).                 *)
(***************************************************************************)
\* no codec or validity function has been applied
NoArg == [fn |-> "-", x |-> <<>>]
NoOut == [tag |-> "-"]

\* the store just created with the first origin
Init ==
    /\ disk = DbHeader_as_bytes(DbHeader(Timestamp_from_DateTime(FirstOrigin), 0))
    /\ file = "None"
    /\ header = DbHeader(Timestamp_from_DateTime(FirstOrigin), 0)
    /\ call = Call("create", 0, NoRecord)
    /\ ret = Ok
    /\ exists = TRUE
    /\ arg = NoArg
    /\ out = NoOut

\* the file never grows past MaxRecords record slots, and records are appended
\* only behind a whole header and whole slots (the bytes of the count and of the
\* time offsets stay those of small numbers)
Fits(f) == Len(f) <= HeaderSize + RecordSize * MaxRecords
Appendable(f) == Len(f) >= HeaderSize /\ (Len(f) - HeaderSize) % RecordSize = 0

(***************************************************************************)
(* PhysicalDB operations.  Every accessor opens the file when no handle is *)
(* held, so each leaves file = "Some"; when there is no file at `path` the *)
(* open fails and the accessor returns its IOError.                        *)
(***************************************************************************)
\* open() is called and fails: no handle is held and there is no file to open
OpenFails == file = "None" /\ ~exists

\* the accessor `name` returns the IOError of open() and touches nothing
open_failed(name, rec_id, rec) ==
    /\ call' = Call(name, rec_id, rec)
    /\ ret' = IOError
    /\ UNCHANGED <<disk, file, header, exists, arg, out>>

create(origin) ==
    /\ disk' = DbHeader_as_bytes(DbHeader(Timestamp_from_DateTime(origin), 0))
    /\ file' = "None"
    /\ header' = DbHeader(Timestamp_from_DateTime(origin), 0)
    /\ call' = Call("create", 0, NoRecord)
    /\ ret' = Ok
    /\ exists' = TRUE
    /\ UNCHANGED <<arg, out>>

\* new that writes a fresh header whether or not there is a file
new_always_create(origin) ==
    /\ disk' = DbHeader_as_bytes(DbHeader(Timestamp_from_DateTime(origin), 0))
    /\ file' = "None"
    /\ header' = DbHeader(Timestamp_from_DateTime(origin), 0)
    /\ call' = Call("new", 0, NoRecord)
    /\ ret' = Ok
    /\ exists' = TRUE
    /\ UNCHANGED <<arg, out>>

\* PhysicalDB::new on the path of the store
new(origin) ==
    LET buffer == ReadAt(disk, 0, HeaderSize)
    IN  /\ call' = Call("new", 0, NoRecord)
        /\ IF exists
           THEN /\ IF Len(buffer) = HeaderSize
                   THEN /\ file' = "Some"
                        /\ header' = DbHeader_from(buffer)
                        /\ ret' = Ok
                   ELSE /\ ret' = IOError
                        /\ UNCHANGED <<file, header>>
                /\ UNCHANGED <<disk, exists>>
           ELSE /\ disk' = DbHeader_as_bytes(DbHeader(Timestamp_from_DateTime(origin), 0))
                /\ file' = "None"
                /\ header' = DbHeader(Timestamp_from_DateTime(origin), 0)
                /\ ret' = Ok
                /\ exists' = TRUE
        /\ UNCHANGED <<arg, out>>

\* open with OpenOptions::truncate(true)
open_truncating ==
    /\ ~OpenFails
    /\ disk' = <<>>
    /\ file' = "Some"
    /\ call' = Call("open", 0, NoRecord)
    /\ ret' = Ok
    /\ UNCHANGED <<header, exists, arg, out>>

open ==
    IF OpenFails THEN open_failed("open", 0, NoRecord)
    ELSE /\ file' = "Some"
         /\ call' = Call("open", 0, NoRecord)
         /\ ret' = Ok
         /\ UNCHANGED <<disk, header, exists, arg, out>>

close ==
    /\ file' = "None"
    /\ call' = Call("close", 0, NoRecord)
    /\ ret' = Ok
    /\ UNCHANGED <<disk, header, exists, arg, out>>

\* a read_header without the lazy open: it needs a handle already held
read_header_without_lazy_open ==
    /\ call' = Call("read_header", 0, NoRecord)
    /\ ret' = IF file = "Some" THEN header_read(disk) ELSE IOError
    /\ UNCHANGED <<disk, file, header, exists, arg, out>>

read_header ==
    IF OpenFails THEN open_failed("read_header", 0, NoRecord)
    ELSE /\ file' = "Some"
         /\ call' = Call("read_header", 0, NoRecord)
         /\ ret' = header_read(disk)
         /\ UNCHANGED <<disk, header, exists, arg, out>>

read_record(rec_id) ==
    IF OpenFails THEN open_failed("read_record", rec_id, NoRecord)
    ELSE /\ file' = "Some"
         /\ call' = Call("read_record", rec_id, NoRecord)
         /\ \/ ret' = record_read(disk, rec_id)
            \/ overflows(rec_id) /\ ret' = Result("Panic")
         /\ UNCHANGED <<disk, header, exists, arg, out>>

\* update_record_number(drn): the count is written at position 7 from the cached header
number_updated(f, h, drn) == WriteAt(f, TimestampSize, ToLE(h.records_number + drn, 8))

\* an append that writes no record
record_not_appended(f, rec_nfo) == f

\* the first half of append_record: the record's bytes at the end of the file
record_appended(f, rec_nfo) == WriteAt(f, Len(f), RecordInfo_as_bytes(rec_nfo))

append_record(rec_nfo) ==
    IF OpenFails THEN open_failed("append_record", 0, rec_nfo)
    ELSE /\ Appendable(disk)
         /\ Fits(record_appended(disk, rec_nfo))
         /\ header.records_number < MaxRecords
         /\ file' = "Some"
         /\ disk' = number_updated(record_appended(disk, rec_nfo), header, 1)
         /\ header' = [header EXCEPT !.records_number = @ + 1]
         /\ call' = Call("append_record", 0, rec_nfo)
         /\ ret' = Ok
         /\ UNCHANGED <<exists, arg, out>>

\* a slip in the position: the value lands on the last byte of the time offset
value_written_one_byte_early(f, rec_id, value) ==
    WriteAt(f, HeaderSize + rec_id * RecordSize + 3, <<value>>)

\* the file after the write of update_record, when the index check lets it through
value_written(f, rec_id, value) ==
    WriteAt(f, u64(pos(rec_id) + 4), <<value>>)

update_record(rec_id, value) ==
    IF OpenFails THEN open_failed("update_record", rec_id, RecordInfo(0, value))
    ELSE /\ file' = "Some"
         /\ call' = Call("update_record", rec_id, RecordInfo(0, value))
         /\ \/ IF ~check_record_index(disk, rec_id)
               THEN /\ ret' = IndexOutOfBound
                    /\ UNCHANGED disk
               ELSE /\ Fits(value_written(disk, rec_id, value))
                    /\ disk' = value_written(disk, rec_id, value)
                    /\ ret' = Ok
            \/ /\ overflows(rec_id)
               /\ ret' = Result("Panic")
               /\ UNCHANGED disk
         /\ UNCHANGED <<header, exists, arg, out>>

\* a check that repairs what it finds: it sets the count on disk to the number of slots
check_db_file_repairing ==
    /\ ~OpenFails
    /\ file' = "Some"
    /\ call' = Call("check_db_file", 0, NoRecord)
    /\ ret' = db_file_check(disk)
    /\ disk' = IF Len(disk) >= HeaderSize
               THEN WriteAt(disk, TimestampSize, ToLE((Len(disk) - HeaderSize) \div RecordSize, 8))
               ELSE disk
    /\ UNCHANGED <<header, exists, arg, out>>

check_db_file ==
    IF OpenFails THEN open_failed("check_db_file", 0, NoRecord)
    ELSE /\ file' = "Some"
         /\ call' = Call("check_db_file", 0, NoRecord)
         /\ ret' = db_file_check(disk)
         /\ UNCHANGED <<disk, header, exists, arg, out>>

reorder_record ==
    LET n == header.records_number
        res == records_read(disk, 0, n)
    IN  IF OpenFails THEN open_failed("reorder_record", 0, NoRecord)
        ELSE /\ file' = "Some"
             /\ call' = Call("reorder_record", 0, NoRecord)
             /\ IF res.tag # "Ok"
                THEN /\ ret' = res
                     /\ UNCHANGED disk
                ELSE /\ \E records \in sorted_orders(records_of(disk, n)) :
                            disk' = WriteAt(disk, HeaderSize, records_bytes(records))
                     /\ ret' = Ok
             /\ UNCHANGED <<header, exists, arg, out>>

RecIds == 0..MaxRecords
Records == {RecordInfo(off, v) : off \in Offsets, v \in Values}

Next ==
    \/ \E origin \in Origins : create(origin)
    \/ \E origin \in Origins : new(origin)
    \/ open
    \/ close
    \/ read_header
    \/ \E rec_id \in RecIds : read_record(rec_id)
    \/ \E rec_nfo \in Records : append_record(rec_nfo)
    \/ \E rec_id \in RecIds, value \in NewValues : update_record(rec_id, value)
    \/ check_db_file
    \/ reorder_record

Spec == Init /\ [][Next]_vars

TypeOK ==
    /\ disk \in Seq(0..255)
    /\ file \in {"None", "Some"}
    /\ ret.tag \in {"Ok", "IOError", "IndexOutOfBound"}

(***************************************************************************)
(* Faults.  The process can die inside append_record, between the write of *)
(* the record and update_record_number; the file can be cut short from     *)
(* outside; and update_record_number is a public method that a caller can  *)
(* invoke on its own.                                                      *)
(***************************************************************************)
\* append_record up to its first sync_all, then the process ends; the next
\* process gets the store back with PhysicalDB::new on the same path
append_record_crash(rec_nfo) ==
    LET written == record_appended(disk, rec_nfo)
        buffer == ReadAt(written, 0, HeaderSize)
    IN  /\ ~OpenFails
        /\ Appendable(disk)
        /\ Fits(written)
        /\ disk' = written
        /\ file' = "Some"
        /\ header' = DbHeader_from(buffer)
        /\ call' = Call("append_record_crash", 0, rec_nfo)
        /\ ret' = Ok
        /\ UNCHANGED <<exists, arg, out>>

update_record_number(drn) ==
    IF OpenFails THEN open_failed("update_record_number", drn, NoRecord)
    ELSE /\ header.records_number + drn <= MaxRecords
         /\ file' = "Some"
         /\ disk' = number_updated(disk, header, drn)
         /\ header' = [header EXCEPT !.records_number = @ + drn]
         /\ call' = Call("update_record_number", drn, NoRecord)
         /\ ret' = Ok
         /\ UNCHANGED <<exists, arg, out>>

\* the file is truncated to len bytes by something other than the store
truncate(len) ==
    /\ exists
    /\ len < Len(disk)
    /\ disk' = SubSeq(disk, 1, len)
    /\ call' = Call("truncate", len, NoRecord)
    /\ ret' = Ok
    /\ UNCHANGED <<file, header, exists, arg, out>>

\* the lengths the file is cut to: inside the header, at the end of a slot, inside a slot
Lengths ==
    {TimestampSize, HeaderSize - 1} \cup
    {HeaderSize + RecordSize * k + d : k \in 0..(MaxRecords - 1), d \in {0, 2}}

Fault ==
    \/ \E rec_nfo \in Records : append_record_crash(rec_nfo)
    \/ update_record_number(1)
    \/ \E len \in Lengths : truncate(len)

NextFault == Next \/ Fault

SpecFault == Init /\ [][NextFault]_vars

(***************************************************************************)
(* The format, as the file organisation describes it: what a file holds,   *)
(* independently of how the store reads it.                                *)
(***************************************************************************)
\* the file holds a whole header
HeaderWhole(f) == Len(f) >= HeaderSize

\* the header of a file that holds a whole one
HeaderOf(f) == DbHeader_from(SubSeq(f, 1, HeaderSize))

\* the number of complete record slots that follow the header
Slots(f) == IF HeaderWhole(f) THEN (Len(f) - HeaderSize) \div RecordSize ELSE 0

\* slot i exists in full
SlotWhole(f, i) == HeaderSize + RecordSize * (i + 1) <= Len(f)

\* the record in slot i of a file where that slot is whole
RecordAt(f, i) ==
    RecordInfo_from(SubSeq(f, HeaderSize + RecordSize * i + 1, HeaderSize + RecordSize * (i + 1)))

\* the issue kind returned by the last call, a check_db_file
Kind == ret.issue.kind

(***************************************************************************)
(* C1: after any sequence of completed store operations from a freshly     *)
(* created store, the records_number of the on-disk header equals the      *)
(* number of complete record slots: file_size = 15 + 5 * records_number.   *)
(* The code breaks it: update_record at index records_number passes the    *)
(* index check and writes a slot the header does not count.                *)
(***************************************************************************)
C1_RecordsNumberIsSlotCount ==
    /\ HeaderWhole(disk)
    /\ Len(disk) = HeaderSize + RecordSize * HeaderOf(disk).records_number

(***************************************************************************)
(* C2: read_record(i) fails with IndexOutOfBound whenever i is at or past  *)
(* records_number, that is whenever slot i does not fully exist.  The code *)
(* lets i = (number of slots) through the index check and then fails the   *)
(* short read with IOError.                                                *)
(***************************************************************************)
C2_ReadPastEndIsIndexOutOfBound ==
    (/\ call.op = "read_record"
     /\ ~SlotWhole(disk, call.rec_id))
        => ret.tag = "IndexOutOfBound"

(***************************************************************************)
(* C3: update_record(i, v) fails with IndexOutOfBound whenever slot i does *)
(* not fully exist, and then leaves the file as it was.  The code lets     *)
(* i = (number of slots) through, returns Ok and grows the file by a slot. *)
(***************************************************************************)
C3_UpdatePastEndFailsAndWritesNothing ==
    [][(/\ call'.op = "update_record"
        /\ ~SlotWhole(disk, call'.rec_id))
            => (ret'.tag = "IndexOutOfBound" /\ disk' = disk)]_vars

(***************************************************************************)
(* C4: on a store holding n = records_number records, a successful         *)
(* append_record(r) makes read_record(n) return r, makes the on-disk and   *)
(* the cached records_number n + 1, and leaves records 0..n-1 unchanged.   *)
(* The code appends at the end of the file, which is past slot n once      *)
(* update_record has written a slot the header does not count (C3).        *)
(***************************************************************************)
C4_AppendedRecordIsReadAtN ==
    [][(/\ call'.op = "append_record"
        /\ ret'.tag = "Ok"
        /\ HeaderWhole(disk))
            => LET n == HeaderOf(disk).records_number
               IN  /\ record_read(disk', n) = OkRecord(call'.rec)
                   /\ header_read(disk').tag = "Ok"
                   /\ header_read(disk').hdr.records_number = n + 1
                   /\ header'.records_number = n + 1
                   /\ \A i \in 0..(n - 1) : record_read(disk', i) = record_read(disk, i)]_vars

(***************************************************************************)
(* C5: for an existing index i (i < records_number), update_record(i, v)   *)
(* changes only the value byte of slot i: read_record(i) then returns the  *)
(* previous time_offset with v, and every other record, the header on      *)
(* disk, the cached header and the file length are unchanged.              *)
(***************************************************************************)
C5_UpdateChangesOnlyTheValue ==
    [][(/\ call'.op = "update_record"
        /\ HeaderWhole(disk)
        /\ call'.rec_id < HeaderOf(disk).records_number)
            => LET i == call'.rec_id
                   v == call'.rec.value
               IN  /\ ret'.tag = "Ok"
                   /\ record_read(disk', i) = OkRecord(RecordInfo(RecordAt(disk, i).time_offset, v))
                   /\ \A j \in 0..(Slots(disk) - 1) : j # i => RecordAt(disk', j) = RecordAt(disk, j)
                   /\ SubSeq(disk', 1, HeaderSize) = SubSeq(disk, 1, HeaderSize)
                   /\ header' = header
                   /\ Len(disk') = Len(disk)]_vars

\* an update of the second of at least two records has returned Ok
C5_Witness ==
    /\ call.op = "update_record"
    /\ ret.tag = "Ok"
    /\ HeaderWhole(disk)
    /\ HeaderOf(disk).records_number >= 2
    /\ call.rec_id = 1
    /\ RecordAt(disk, 1) = RecordInfo(300, call.rec.value)
    /\ RecordAt(disk, 0).value # call.rec.value

(***************************************************************************)
(* C6: when the header on disk is readable, its origin date passes the     *)
(* validity check and it declares more records than the file holds whole   *)
(* slots, check_db_file returns MismatchRecordAmount.  The code returns    *)
(* RecordCorrupted (or UnorderedRecord) from the loop instead: the check   *)
(* after the loop can never fail, since every declared record was read.    *)
(***************************************************************************)
C6_FewerSlotsIsMismatch ==
    (/\ call.op = "check_db_file"
     /\ HeaderWhole(disk)
     /\ is_valid(HeaderOf(disk).origin_date)
     /\ Slots(disk) < HeaderOf(disk).records_number)
        => Kind = "MismatchRecordAmount"

(***************************************************************************)
(* C7: after append_record was interrupted between the write of the record *)
(* and the increment of records_number, so that the file holds more whole  *)
(* slots than the header declares, the next check_db_file returns          *)
(* MismatchRecordAmount (when it finds no issue of higher priority).  The  *)
(* code returns None: its last check only asks for at least as many bytes  *)
(* as the header declares.                                                 *)
(***************************************************************************)
C7_CrashInAppendIsMismatch ==
    [][(/\ call.op = "append_record_crash"
        /\ call'.op = "check_db_file"
        /\ Slots(disk) > HeaderOf(disk).records_number
        /\ ret'.issue.kind \notin
              {"HeaderCorrupted", "OriginDateInvalid", "RecordCorrupted", "UnorderedRecord"})
            => ret'.issue.kind = "MismatchRecordAmount"]_vars

(***************************************************************************)
(* What a file holds that a scan can report.                               *)
(***************************************************************************)
Declared(f) == HeaderOf(f).records_number

\* record i is below the record before it
OutOfOrder(f, i) ==
    /\ i >= 1
    /\ SlotWhole(f, i)
    /\ RecordAt(f, i).time_offset < RecordAt(f, i - 1).time_offset

\* a declared record that is not whole, a declared record out of order
SomeUnreadable(f) == \E i \in 0..(Declared(f) - 1) : ~SlotWhole(f, i)
SomeOutOfOrder(f) == \E i \in 0..(Declared(f) - 1) : OutOfOrder(f, i)

\* the declared indices at which a scan in index order has something to report
Stops(f) == {i \in 0..(Declared(f) - 1) : ~SlotWhole(f, i) \/ OutOfOrder(f, i)}
FirstStop(f) == CHOOSE i \in Stops(f) : \A j \in Stops(f) : i <= j

(***************************************************************************)
(* C8, as claimed: check_db_file returns an issue only when no issue of    *)
(* higher priority is present anywhere in the file, in the order           *)
(* HeaderCorrupted, OriginDateInvalid, RecordCorrupted, UnorderedRecord,   *)
(* MismatchRecordAmount; in particular UnorderedRecord only if every       *)
(* declared record is whole.                                               *)
(***************************************************************************)
C8_IssueOnlyIfNoHigherOnePresent ==
    call.op = "check_db_file" =>
        /\ Kind = "OriginDateInvalid" => HeaderWhole(disk)
        /\ Kind = "RecordCorrupted" =>
              HeaderWhole(disk) /\ is_valid(HeaderOf(disk).origin_date)
        /\ Kind = "UnorderedRecord" =>
              /\ HeaderWhole(disk) /\ is_valid(HeaderOf(disk).origin_date)
              /\ ~SomeUnreadable(disk)
        /\ Kind = "MismatchRecordAmount" =>
              /\ HeaderWhole(disk) /\ is_valid(HeaderOf(disk).origin_date)
              /\ ~SomeUnreadable(disk) /\ ~SomeOutOfOrder(disk)

(***************************************************************************)
(* C8, amended: check_db_file returns the first issue its single pass      *)
(* meets.  HeaderCorrupted if the header is not whole; else                *)
(* OriginDateInvalid if the origin date fails the validity check; else, at *)
(* the lowest declared index i where record i is not whole or is below its *)
(* predecessor, RecordCorrupted(i) in the first case and UnorderedRecord   *)
(* in the second; MismatchRecordAmount or None only when there is no such  *)
(* index.  A file with an out-of-order pair before its first unreadable    *)
(* declared record yields UnorderedRecord.                                 *)
(***************************************************************************)
C8_FirstIssueOfTheScan ==
    call.op = "check_db_file" =>
        /\ ret.tag = "Ok"
        /\ IF ~HeaderWhole(disk) THEN Kind = "HeaderCorrupted"
           ELSE IF ~is_valid(HeaderOf(disk).origin_date) THEN Kind = "OriginDateInvalid"
           ELSE IF Stops(disk) = {} THEN Kind \in {"MismatchRecordAmount", "None"}
           ELSE IF SlotWhole(disk, FirstStop(disk)) THEN Kind = "UnorderedRecord"
           ELSE Kind = "RecordCorrupted" /\ ret.issue.index = FirstStop(disk)

\* a scan has returned UnorderedRecord on a file with an unreadable declared record
C8_Witness ==
    /\ call.op = "check_db_file"
    /\ Kind = "UnorderedRecord"
    /\ SomeUnreadable(disk)

Occurrences(records, r) == Cardinality({i \in 1..Len(records) : records[i] = r})

SameRecords(a, b) ==
    /\ Len(a) = Len(b)
    /\ \A i \in 1..Len(a) : Occurrences(a, a[i]) = Occurrences(b, a[i])

StoredRecords(f, n) == [i \in 1..n |-> RecordAt(f, i - 1)]

C10_ReorderSortsAndKeepsTheRecords ==
    [][(/\ call'.op = "reorder_record"
        /\ ret'.tag = "Ok")
            => LET n == header.records_number
                   before == StoredRecords(disk, n)
                   after == StoredRecords(disk', n)
               IN  /\ \A i \in 1..(n - 1) : after[i].time_offset <= after[i + 1].time_offset
                   /\ SameRecords(before, after)
                   /\ \A i \in 0..(n - 1) : record_read(disk', i) = OkRecord(after[i + 1])
                   /\ SubSeq(disk', 1, HeaderSize) = SubSeq(disk, 1, HeaderSize)
                   /\ header' = header
                   /\ Len(disk') = Len(disk)]_vars

\* a reorder of three records, two of them with the same offset, has returned Ok
C10_Witness ==
    /\ call.op = "reorder_record"
    /\ ret.tag = "Ok"
    /\ header.records_number = 3
    /\ StoredRecords(disk, 3) = <<RecordInfo(1, 7), RecordInfo(1, 9), RecordInfo(300, 9)>>

(***************************************************************************)
(* The calendar of chrono: Utc.ymd(y, m, d).and_hms(h, mi, s) is defined   *)
(* exactly for the dates and times below, and panics for the others.       *)
(***************************************************************************)
IsLeapYear(y) == y % 4 = 0 /\ (y % 100 # 0 \/ y % 400 = 0)

DaysInMonth(y, m) ==
    IF m = 2 THEN (IF IsLeapYear(y) THEN 29 ELSE 28)
    ELSE IF m \in {4, 6, 9, 11} THEN 30
    ELSE 31

IsCalendarDate(t) ==
    /\ t.month >= 1 /\ t.month <= 12
    /\ t.day >= 1 /\ t.day <= DaysInMonth(t.year, t.month)
    /\ t.hour < 24
    /\ t.minute < 60
    /\ t.second < 60

(***************************************************************************)
(* A store built by create and filled by append_record only, checked and   *)
(* reordered at any time.                                                  *)
(***************************************************************************)
\* the records appended: every offset with every value
AppendRecords == {RecordInfo(off, v) : off \in Offsets, v \in Values \cup NewValues}

NextAppend ==
    \/ \E origin \in Origins : create(origin)
    \/ \E rec_nfo \in AppendRecords : append_record(rec_nfo)
    \/ check_db_file
    \/ reorder_record

SpecAppend == Init /\ [][NextAppend]_vars

(***************************************************************************)
(* C11: for a store built by create with an origin that is a calendar date *)
(* and filled by append_record calls in any offset order, check_db_file    *)
(* returns UnorderedRecord whenever some record is below its predecessor,  *)
(* and the check_db_file that follows a successful reorder_record returns  *)
(* None.                                                                   *)
(***************************************************************************)
C11_UnorderedIsReportedAndReorderRepairs ==
    [][/\ (/\ call'.op = "check_db_file"
           /\ IsCalendarDate(header.origin_date)
           /\ SomeOutOfOrder(disk))
              => ret' = OkIssue("UnorderedRecord", 0)
       /\ (/\ call.op = "reorder_record"
           /\ ret.tag = "Ok"
           /\ IsCalendarDate(header.origin_date)
           /\ call'.op = "check_db_file")
              => ret' = OkIssue("None", 0)]_vars

(***************************************************************************)
(* The conversions and the validity check, applied on their own.  A        *)
(* decoding reads its fields with read_uXX(..).unwrap(): on a slice that   *)
(* ends before the last field the unwrap panics.                           *)
(***************************************************************************)
Panic == [tag |-> "panic"]
Value(v) == [tag |-> "value", v |-> v]

Timestamp_decode(d) == IF Len(d) < TimestampSize THEN Panic ELSE Value(Timestamp_from(d))
RecordInfo_decode(d) == IF Len(d) < RecordSize THEN Panic ELSE Value(RecordInfo_from(d))
DbHeader_decode(d) == IF Len(d) < HeaderSize THEN Panic ELSE Value(DbHeader_from(d))

\* the timestamps offered to is_valid: around every limit of every field
Timestamps ==
    [year : {1900, 2000, 2020, 2023}, month : {0, 1, 2, 4, 8, 9, 12, 13},
     day : {0, 1, 28, 29, 30, 31, 32}, hour : {0, 23, 24}, minute : {0, 59, 60},
     second : {0, 59, 60}]

\* the values offered to the encodings: the ends of each field's range
\* (time_offset and records_number up to 2^31 - 1, the largest integer of TLC)
CodecTimestamps ==
    [year : {0, 2020, 65535}, month : {0, 8, 255}, day : {0, 31, 255},
     hour : {0, 255}, minute : {0, 255}, second : {0, 255}]
CodecRecords == {RecordInfo(off, v) : off \in {0, 1, 300, 65538, 2147483647}, v \in {0, 9, 255}}
CodecHeaders ==
    {DbHeader(o, n) : o \in {t \in CodecTimestamps : t.hour = t.minute /\ t.minute = t.second},
                      n \in {0, 3, 65538, 2147483647}}

\* the slices offered to the decodings: every prefix of a header followed by a record
Slices ==
    {SubSeq(DbHeader_as_bytes(h) \o RecordInfo_as_bytes(r), 1, n) :
        h \in {DbHeader(Timestamp_from_DateTime(origin), 3) : origin \in Origins},
        r \in Records, n \in 0..(HeaderSize + RecordSize)}

\* each application is made on its own: none has been made before it
Timestamp_is_valid(t) ==
    /\ arg = NoArg
    /\ arg' = [fn |-> "is_valid", x |-> t]
    /\ out' = Value(is_valid(t))
    /\ UNCHANGED <<disk, file, header, call, ret, exists>>

Timestamp_round_trip(t) ==
    /\ arg = NoArg
    /\ arg' = [fn |-> "Timestamp", x |-> t]
    /\ out' = [bytes |-> Timestamp_as_bytes(t),
               back |-> Timestamp_decode(Timestamp_as_bytes(t))]
    /\ UNCHANGED <<disk, file, header, call, ret, exists>>

RecordInfo_round_trip(r) ==
    /\ arg = NoArg
    /\ arg' = [fn |-> "RecordInfo", x |-> r]
    /\ out' = [bytes |-> RecordInfo_as_bytes(r),
               back |-> RecordInfo_decode(RecordInfo_as_bytes(r))]
    /\ UNCHANGED <<disk, file, header, call, ret, exists>>

DbHeader_round_trip(h) ==
    /\ arg = NoArg
    /\ arg' = [fn |-> "DbHeader", x |-> h]
    /\ out' = [bytes |-> DbHeader_as_bytes(h),
               back |-> DbHeader_decode(DbHeader_as_bytes(h))]
    /\ UNCHANGED <<disk, file, header, call, ret, exists>>

Timestamp_from_slice(d) ==
    /\ arg = NoArg
    /\ arg' = [fn |-> "Timestamp::from", x |-> d]
    /\ out' = Timestamp_decode(d)
    /\ UNCHANGED <<disk, file, header, call, ret, exists>>

RecordInfo_from_slice(d) ==
    /\ arg = NoArg
    /\ arg' = [fn |-> "RecordInfo::from", x |-> d]
    /\ out' = RecordInfo_decode(d)
    /\ UNCHANGED <<disk, file, header, call, ret, exists>>

DbHeader_from_slice(d) ==
    /\ arg = NoArg
    /\ arg' = [fn |-> "DbHeader::from", x |-> d]
    /\ out' = DbHeader_decode(d)
    /\ UNCHANGED <<disk, file, header, call, ret, exists>>

NextPure ==
    \/ \E t \in Timestamps : Timestamp_is_valid(t)
    \/ \E t \in CodecTimestamps : Timestamp_round_trip(t)
    \/ \E r \in CodecRecords : RecordInfo_round_trip(r)
    \/ \E h \in CodecHeaders : DbHeader_round_trip(h)
    \/ \E d \in Slices : Timestamp_from_slice(d)
    \/ \E d \in Slices : RecordInfo_from_slice(d)
    \/ \E d \in Slices : DbHeader_from_slice(d)

SpecPure == Init /\ [][NextPure]_vars

(***************************************************************************)
(* C12: is_valid returns true exactly when the fields denote a real        *)
(* calendar date and time (month 1..12, day 1..the length of that month,   *)
(* leap years under the 4/100/400 rule, hour < 24, minute < 60,            *)
(* second < 60); so every Timestamp built from a UTC instant is valid.     *)
(***************************************************************************)
C12_IsValidIffCalendarDate ==
    arg.fn = "is_valid" => (out.v <=> IsCalendarDate(arg.x))

(***************************************************************************)
(* C17: for every Timestamp, RecordInfo and DbHeader value x, decoding the *)
(* bytes of as_bytes() gives x again, and the encodings are 7, 5 and 15    *)
(* bytes: year (u16, low byte first) month day hour minute second, then    *)
(* records_number (u64, low byte first) at offset 7; time_offset (u32, low *)
(* byte first) then value.                                                 *)
(***************************************************************************)
\* byte i (from 0) of the little-endian form of n < 2^31
Byte(n, i) == IF i > 3 THEN 0 ELSE (n \div (256 ^ i)) % 256

C17_CodecRoundTripAndLayout ==
    /\ arg.fn = "Timestamp" =>
          /\ out.back = Value(arg.x)
          /\ out.bytes = <<Byte(arg.x.year, 0), Byte(arg.x.year, 1), arg.x.month, arg.x.day,
                           arg.x.hour, arg.x.minute, arg.x.second>>
    /\ arg.fn = "RecordInfo" =>
          /\ out.back = Value(arg.x)
          /\ out.bytes = [i \in 1..RecordSize |->
                            IF i <= 4 THEN Byte(arg.x.time_offset, i - 1) ELSE arg.x.value]
    /\ arg.fn = "DbHeader" =>
          /\ out.back = Value(arg.x)
          /\ Len(out.bytes) = HeaderSize
          /\ SubSeq(out.bytes, 1, TimestampSize) = Timestamp_as_bytes(arg.x.origin_date)
          /\ \A i \in 0..7 : out.bytes[TimestampSize + 1 + i] = Byte(arg.x.records_number, i)

\* a header with the largest year and a count that fills three bytes has made the round trip
C17_Witness ==
    /\ arg.fn = "DbHeader"
    /\ arg.x.origin_date.year = 65535
    /\ arg.x.records_number = 65538
    /\ out.back.tag = "value"

(***************************************************************************)
(* C18: decoding from too few bytes fails with an error value, and neither *)
(* succeeds nor aborts: Timestamp from fewer than 7 bytes, RecordInfo from *)
(* fewer than 5, DbHeader from fewer than 15.                              *)
(***************************************************************************)
C18_ShortDecodeIsAnErrorValue ==
    /\ (arg.fn = "Timestamp::from" /\ Len(arg.x) < 7) => out.tag = "error"
    /\ (arg.fn = "RecordInfo::from" /\ Len(arg.x) < 5) => out.tag = "error"
    /\ (arg.fn = "DbHeader::from" /\ Len(arg.x) < 15) => out.tag = "error"

(***************************************************************************)
(* The store in its environment: the file at `path` can be removed while   *)
(* no handle is held, cut short, or have its header overwritten by another *)
(* program; append_record_now reads the clock.                             *)
(***************************************************************************)
\* fs::remove_file(path)
remove_file ==
    /\ exists
    /\ file = "None"
    /\ exists' = FALSE
    /\ disk' = <<>>
    /\ call' = Call("remove_file", 0, NoRecord)
    /\ ret' = Ok
    /\ UNCHANGED <<file, header, arg, out>>

\* the month a foreign write puts in the header: not a month
BadMonth == 13

\* another program overwrites the month of the origin date (byte 2 of the file)
write_month(m) ==
    /\ exists
    /\ Len(disk) >= TimestampSize
    /\ disk[3] # m
    /\ disk' = WriteAt(disk, 2, <<m>>)
    /\ call' = Call("write_month", m, NoRecord)
    /\ ret' = Ok
    /\ UNCHANGED <<file, header, exists, arg, out>>

\* days from 1970-01-01 to the calendar date y-m-d
DaysFromCivil(y, m, d) ==
    LET yy == IF m <= 2 THEN y - 1 ELSE y
        era == yy \div 400
        yoe == yy - era * 400
        doy == (153 * (IF m > 2 THEN m - 3 ELSE m + 9) + 2) \div 5 + d - 1
        doe == yoe * 365 + yoe \div 4 - yoe \div 100 + doy
    IN  era * 146097 + doe - 719468

\* seconds from 1970-01-01T00:00:00Z to the instant a Timestamp converts into
Seconds(t) ==
    DaysFromCivil(t.year, t.month, t.day) * 86400 + t.hour * 3600 + t.minute * 60 + t.second

\* Timestamp::offset, for a date that is not before self
offset(me, date) == Seconds(date) - Seconds(me)

\* the instants the clock gives to append_record_now: append_record_now is
\* followed for the instants whose offset from the origin is one of Offsets
Nows ==
    { [year |-> 1994, month |-> 7, day |-> 8, hour |-> 6, minute |-> 55, second |-> 35],
      [year |-> 2020, month |-> 8, day |-> 31, hour |-> 0, minute |-> 5, second |-> 0] }

append_record_now(value, utc_now) ==
    LET origin == header.origin_date
        now == Timestamp_from_DateTime(utc_now)
        nfo == RecordInfo(offset(origin, now), value)
    IN  IF ~IsCalendarDate(origin)
        THEN /\ call' = Call("append_record_now", 0, RecordInfo(0, value))
             /\ ret' = Result("Panic")
             /\ UNCHANGED <<disk, file, header, exists, arg, out>>
        ELSE /\ offset(origin, now) \in Offsets
             /\ IF OpenFails THEN open_failed("append_record_now", 0, nfo)
                ELSE /\ Appendable(disk)
                     /\ Fits(record_appended(disk, nfo))
                     /\ header.records_number < MaxRecords
                     /\ file' = "Some"
                     /\ disk' = number_updated(record_appended(disk, nfo), header, 1)
                     /\ header' = [header EXCEPT !.records_number = @ + 1]
                     /\ call' = Call("append_record_now", 0, nfo)
                     /\ ret' = Ok
                     /\ UNCHANGED <<exists, arg, out>>

Env ==
    \/ remove_file
    \/ write_month(BadMonth)
    \/ \E len \in Lengths : truncate(len)
    \/ \E value \in Values, utc_now \in Nows : append_record_now(value, utc_now)

NextEnv == Next \/ Env

SpecEnv == Init /\ [][NextEnv]_vars

(***************************************************************************)
(* C13: after a successful create(path, origin), whatever was at path      *)
(* before (nothing, or a store with records), the file is exactly 15       *)
(* bytes, a header with origin_date equal to the origin supplied and       *)
(* records_number 0; the store returned holds no file handle and its       *)
(* cached header equals the header on disk.                                *)
(***************************************************************************)
C13_CreateWritesAFreshHeader ==
    [][\A origin \in Origins :
          create(origin) =>
              /\ ret' = Ok
              /\ exists'
              /\ Len(disk') = 15
              /\ HeaderOf(disk') = DbHeader(origin, 0)
              /\ file' = "None"
              /\ header' = HeaderOf(disk')]_vars

\* create has just replaced what was at path by a fresh header with the second origin
C13_Witness ==
    /\ call.op = "create"
    /\ exists
    /\ file = "None"
    /\ disk = <<228, 7, 8, 31, 0, 0, 0, 0, 0, 0, 0, 0, 0, 0, 0>>

(***************************************************************************)
(* C14: new on a path that exists never modifies the file and ignores the  *)
(* origin argument: with at least 15 bytes present it returns a store      *)
(* whose cached header is the decoding of the first 15 bytes, with no      *)
(* validation of field ranges or of the record count, and with fewer than  *)
(* 15 bytes it fails with IOError; only when the path does not exist does  *)
(* it behave as create.                                                    *)
(***************************************************************************)
C14_NewReadsAnExistingFileAsItIs ==
    [][\A origin \in Origins :
          new(origin) =>
              IF exists
              THEN /\ disk' = disk
                   /\ exists'
                   /\ IF Len(disk) >= 15
                      THEN /\ ret' = Ok
                           /\ header' = DbHeader_from(SubSeq(disk, 1, 15))
                      ELSE ret' = IOError
              ELSE /\ ret' = Ok
                   /\ exists'
                   /\ Len(disk') = 15
                   /\ HeaderOf(disk') = DbHeader(origin, 0)
                   /\ file' = "None"
                   /\ header' = HeaderOf(disk')]_vars

\* new has returned a store for a file whose month is 13 and whose record
\* count is not its number of slots
C14_Witness ==
    /\ call.op = "new"
    /\ ret.tag = "Ok"
    /\ exists
    /\ header.origin_date.month = BadMonth
    /\ header.records_number # Slots(disk)

(***************************************************************************)
(* C15: open and close are idempotent and content-neutral.  open on a      *)
(* store that holds a handle and close on a store that holds none are      *)
(* no-ops returning Ok; an open after an open, a close after a close,      *)
(* changes nothing; neither changes a byte of the file nor the cached      *)
(* header.                                                                 *)
(***************************************************************************)
C15_OpenAndCloseAreIdempotentAndNeutral ==
    [][/\ call'.op = "open" =>
            /\ disk' = disk /\ header' = header /\ exists' = exists
            /\ ret'.tag = "Ok" => file' = "Some"
            /\ file = "Some" => (ret' = Ok /\ file' = file)
            /\ (call.op = "open" /\ ret.tag = "Ok") => (ret' = Ok /\ file' = file)
       /\ call'.op = "close" =>
            /\ disk' = disk /\ header' = header /\ exists' = exists
            /\ ret' = Ok
            /\ file' = "None"
            /\ (file = "None" \/ call.op = "close") => file' = file]_vars

\* an open has returned Ok on a store that holds records
C15_Witness ==
    /\ call.op = "open"
    /\ ret.tag = "Ok"
    /\ file = "Some"
    /\ header.records_number = 2
    /\ Len(disk) = HeaderSize + 2 * RecordSize

(***************************************************************************)
(* C16: no store operation panics on ordinary bad input.  For any file     *)
(* content (a header whose origin date is not a calendar date, a header    *)
(* declaring any records_number), a missing file and any record index,     *)
(* each of new, read_header, read_record, append_record,                   *)
(* append_record_now, update_record, check_db_file and reorder_record      *)
(* returns Ok, IOError or IndexOutOfBound.                                 *)
(***************************************************************************)
C16_NoOperationPanics ==
    call.op \in {"new", "read_header", "read_record", "append_record", "append_record_now",
                 "update_record", "check_db_file", "reorder_record"}
        => ret.tag \in {"Ok", "IOError", "IndexOutOfBound"}

(***************************************************************************)
(* C19: the origin date is fixed at creation.  No operation on an existing *)
(* store (append_record, update_record at any index, update_record_number, *)
(* reorder_record, check_db_file, read_header, read_record, open, close,   *)
(* re-opening the file through new) changes bytes 0..6 of the file or the  *)
(* cached origin_date.                                                     *)
(***************************************************************************)
C19_OriginDateIsFixed ==
    [][call'.op \in {"append_record", "append_record_crash", "update_record",
                     "update_record_number", "reorder_record", "check_db_file",
                     "read_header", "read_record", "open", "close", "new"}
          => /\ SubSeq(disk', 1, 7) = SubSeq(disk, 1, 7)
             /\ header'.origin_date = header.origin_date]_vars

(***************************************************************************)
(* C20: for a file cut to fewer than 15 bytes, read_header fails with an   *)
(* IOError, and check_db_file returns HeaderCorrupted as its result,       *)
(* before any other check and without returning an error.                  *)
(***************************************************************************)
C20_ShortFileIsHeaderCorrupted ==
    Len(disk) < 15 =>
        /\ call.op = "read_header" => ret = IOError
        /\ call.op = "check_db_file" => ret = OkIssue("HeaderCorrupted", 0)

\* check_db_file has run on a file cut inside its header
C20_Witness ==
    /\ call.op = "check_db_file"
    /\ Len(disk) = HeaderSize - 1
    /\ ret.tag = "Ok"

(***************************************************************************)
(* C21: lazy open is transparent.  Every accessor (read_header,            *)
(* read_record, append_record, update_record, update_record_number,        *)
(* check_db_file, reorder_record) called on a store that holds no handle   *)
(* returns the same result and has the same effect on the file and on the  *)
(* cached header as on a store that holds one, and leaves the handle open; *)
(* open and close calls in between change no result of the others.         *)
(***************************************************************************)
\* what an accessor call c may give on file f with cached header h: the file,
\* the cached header and the result after it, whatever the handle was
Outcomes(c, f, h) ==
    LET same(r) == {[disk |-> f, header |-> h, ret |-> r]}
        counted(g, drn) ==
            {[disk |-> number_updated(g, h, drn),
              header |-> [h EXCEPT !.records_number = @ + drn], ret |-> Ok]}
    IN  CASE c.op = "read_header" -> same(header_read(f))
          [] c.op = "read_record" -> same(record_read(f, c.rec_id))
          [] c.op = "check_db_file" -> same(db_file_check(f))
          [] c.op = "append_record" -> counted(record_appended(f, c.rec), 1)
          [] c.op = "update_record_number" -> counted(f, c.rec_id)
          [] c.op = "update_record" ->
                IF check_record_index(f, c.rec_id)
                THEN {[disk |-> value_written(f, c.rec_id, c.rec.value), header |-> h, ret |-> Ok]}
                ELSE same(IndexOutOfBound)
          [] c.op = "reorder_record" ->
                IF records_read(f, 0, h.records_number).tag # "Ok"
                THEN same(records_read(f, 0, h.records_number))
                ELSE {[disk |-> WriteAt(f, HeaderSize, records_bytes(records)),
                       header |-> h, ret |-> Ok] :
                          records \in sorted_orders(records_of(f, h.records_number))}

Accessors ==
    {"read_header", "read_record", "append_record", "update_record",
     "update_record_number", "check_db_file", "reorder_record"}

C21_LazyOpenIsTransparent ==
    [][/\ call'.op \in Accessors =>
            /\ file' = "Some"
            /\ [disk |-> disk', header |-> header', ret |-> ret'] \in Outcomes(call', disk, header)
       /\ call'.op \in {"open", "close"} =>
            /\ disk' = disk
            /\ header' = header]_vars

\* a read_header has returned the header of a store of two records and left the handle open
C21_Witness ==
    /\ call.op = "read_header"
    /\ file = "Some"
    /\ ret = OkHeader(header)
    /\ header.records_number = 2

(***************************************************************************)
(* C22: append_record writes the record's bytes before it increments the   *)
(* count.  On a store that was consistent before the call, at every        *)
(* intermediate point of an append, and so after a crash at any step, the  *)
(* records_number on disk is at most the number of complete record slots   *)
(* in the file: the header never counts a record that is not in the file.  *)
(***************************************************************************)
\* the file is a whole header and exactly the slots it declares, and the cache is that header
Consistent(f, h) ==
    /\ HeaderWhole(f)
    /\ Len(f) = HeaderSize + RecordSize * Declared(f)
    /\ h = HeaderOf(f)

C22_CountNeverAheadOfTheSlots ==
    [][(/\ call'.op \in {"append_record_crash", "append_record"}
        /\ Consistent(disk, header))
            => /\ Declared(disk') <= Slots(disk')
               /\ call'.op = "append_record_crash" =>
                     (Declared(disk') = Declared(disk) /\ Slots(disk') = Slots(disk) + 1)
               /\ call'.op = "append_record" =>
                     (Declared(disk') = Declared(disk) + 1 /\ Slots(disk') = Slots(disk) + 1)]_vars

\* an append on a store of one record has stopped between its two writes
C22_Witness ==
    /\ call.op = "append_record_crash"
    /\ Declared(disk) = 1
    /\ Slots(disk) = 2
    /\ RecordAt(disk, 1) = call.rec

(***************************************************************************)
(* The public methods of the store with nothing else touching the file:    *)
(* the operations of Next and update_record_number called on its own.      *)
(***************************************************************************)
NextPublic ==
    \/ Next
    \/ update_record_number(1)

SpecPublic == Init /\ [][NextPublic]_vars

(***************************************************************************)
(* C23: with no external mutation of the file, after every completed       *)
(* store operation the cached header equals the header on disk:            *)
(* read_header returns the origin_date and records_number of the store's   *)
(* header field, so reorder_record (cached count) and check_db_file        *)
(* (count on disk) range over the same records.                            *)
(***************************************************************************)
C23_CachedHeaderIsTheHeaderOnDisk ==
    /\ HeaderWhole(disk)
    /\ header = HeaderOf(disk)
    /\ header_read(disk) = OkHeader(header)
    /\ call.op = "read_header" => ret = OkHeader(header)

(***************************************************************************)
(* The store called with indices from the whole range of u64: the indices  *)
(* of Next, one large index whose address is still in range, and indices   *)
(* whose address 15 + 5*index leaves the range and comes back as 0, 4 or   *)
(* 19.                                                                     *)
(***************************************************************************)
BigRecIds ==
    {(Word \div 2) \div RecordSize} \cup
    {i \in 0..(Word - 1) : overflows(i) /\ pos(i) \in {0, 4, HeaderSize + 4}}

NextIndex ==
    \/ \E origin \in Origins : create(origin)
    \/ \E rec_nfo \in Records : append_record(rec_nfo)
    \/ read_header
    \/ \E rec_id \in RecIds \cup BigRecIds : read_record(rec_id)
    \/ \E rec_id \in RecIds \cup BigRecIds, value \in NewValues : update_record(rec_id, value)

SpecIndex == Init /\ [][NextIndex]_vars

(***************************************************************************)
(* C24: the slot address 15 + 5*index is safe for every u64 index.  For an *)
(* index so large that 5*index or 15 + 5*index exceeds the largest u64,    *)
(* read_record and update_record still return IndexOutOfBound: wraparound  *)
(* never makes the bounds check pass, nor a read or write happen at a      *)
(* wrapped position.                                                       *)
(***************************************************************************)
C24_IndexArithmeticIsSafe ==
    [][(/\ call'.op \in {"read_record", "update_record"}
        /\ overflows(call'.rec_id))
            => /\ ret' = IndexOutOfBound
               /\ disk' = disk]_vars

(***************************************************************************)
(* C25: check_db_file is a read-only, deterministic scan.  It changes no   *)
(* byte of the file and not the cached header (at most the handle, from    *)
(* none to open), so two consecutive calls with no operation in between    *)
(* return the same DbIssue; the same holds for read_header and             *)
(* read_record.                                                            *)
(***************************************************************************)
C25_ChecksAndReadsChangeNothing ==
    [][call'.op \in {"check_db_file", "read_header", "read_record"} =>
          /\ disk' = disk
          /\ header' = header
          /\ exists' = exists
          /\ file' # file => (file = "None" /\ file' = "Some")
          /\ (call.op = call'.op /\ call.rec_id = call'.rec_id) => ret' = ret]_vars

\* a check has reported the missing third record of a store that declares three
C25_Witness ==
    /\ call.op = "check_db_file"
    /\ ret = OkIssue("RecordCorrupted", 2)
    /\ file = "Some"
    /\ Len(disk) = HeaderSize + 2 * RecordSize

====
